---- MODULE Spec2Model ----
(***************************************************************************)
(* A model of clients/myfitnesspal/myfitnesspal_scraper.py:                *)
(*   - split_into_food_name_and_qty and the FoodLogEntry accessors,        *)
(*   - MyFitnessPalScraper.scrape_logs (the one-year window loop, its      *)
(*     temporary files and its argument checks),                           *)
(*   - the FoodLog views daily_macros, unique_foods_sorted_by_frequency    *)
(*     and raw_foods_list.                                                 *)
(*                                                                         *)
(* Conventions.                                                            *)
(*   - A Python str is a sequence of one-character strings.                *)
(*   - An Arrow/datetime instant is a number of seconds since the epoch,   *)
(*     UTC; the proleptic Gregorian calendar is computed, not abstracted.  *)
(*   - A Python float that is a quotient is the pair [num, den].           *)
(*   - The module is Python 2 code (dict.iteritems): a plain dict iterates *)
(*     in an order unrelated to insertion order, and int / int floors.     *)
(***************************************************************************)
EXTENDS Integers, Sequences, FiniteSets, TLC

VARIABLES
    pc,          \* position of the running call: "idle", "loop", "done", "raised"
    args,        \* the arguments of the running call
    i,           \* scrape_logs: start of the current window
    j,           \* scrape_logs: end of the current window
    entries,     \* scrape_logs: the rows collected so far
    calls,       \* the Exporter command lines issued, in order (formatted dates)
    windows,     \* history: the instants <<i, j>> behind each command line
    files,       \* temporary files that exist on disk
    fds,         \* file descriptors that are open
    nfiles,      \* number of temporary files created so far
    error,       \* the exception that ended the call, or "none"
    self,        \* the FoodLog (or FoodLogEntry) the call works on / returns
    ret          \* the value returned by the call

vars == <<pc, args, i, j, entries, calls, windows, files, fds, nfiles, error, self, ret>>

(***************************************************************************)
(* Bounds of the model.                                                    *)
(***************************************************************************)
NumYears == 5        \* scrape_logs dates are drawn from this many calendar years
MaxBatch == 1        \* rows one Exporter invocation may return
MaxEntries == 3      \* entries of a FoodLog handed to a view
MaxDays == 3         \* days the FoodLog dates are drawn from
MaxLen == 5          \* length of a food description handed to the splitter

Min(a, b) == IF a < b THEN a ELSE b
Max(a, b) == IF a > b THEN a ELSE b

RECURSIVE SumSeq(_)
SumSeq(s) == IF s = <<>> THEN 0 ELSE Head(s) + SumSeq(Tail(s))

(***************************************************************************)
(* Calendar arithmetic of arrow / datetime / dateutil.                     *)
(***************************************************************************)
SecondsPerDay == 86400

IsLeap(y) == (y % 4 = 0 /\ y % 100 # 0) \/ y % 400 = 0

DaysInMonth(y, m) ==
    IF m = 2 THEN (IF IsLeap(y) THEN 29 ELSE 28)
    ELSE IF m \in {4, 6, 9, 11} THEN 30 ELSE 31

\* days since 1970-01-01 of the civil date y-m-d
days_from_civil(y, m, d) ==
    LET yy  == IF m <= 2 THEN y - 1 ELSE y
        era == yy \div 400
        yoe == yy - era * 400
        mp  == IF m > 2 THEN m - 3 ELSE m + 9
        doy == (153 * mp + 2) \div 5 + d - 1
        doe == yoe * 365 + yoe \div 4 - yoe \div 100 + doy
    IN  era * 146097 + doe - 719468

\* the civil date <<y, m, d>> of a day number
civil_from_days(z) ==
    LET zz  == z + 719468
        era == zz \div 146097
        doe == zz - era * 146097
        yoe == (doe - doe \div 1460 + doe \div 36524 - doe \div 146096) \div 365
        doy == doe - (365 * yoe + yoe \div 4 - yoe \div 100)
        mp  == (5 * doy + 2) \div 153
        d   == doy - (153 * mp + 2) \div 5 + 1
        m   == IF mp < 10 THEN mp + 3 ELSE mp - 9
        y   == yoe + era * 400 + (IF m <= 2 THEN 1 ELSE 0)
    IN  <<y, m, d>>

DayOf(t) == t \div SecondsPerDay
TimeOfDay(t) == t % SecondsPerDay
At(y, m, d) == days_from_civil(y, m, d) * SecondsPerDay

\* Arrow.floor('day')
FloorDay(t) == DayOf(t) * SecondsPerDay

\* datetime.weekday(): Monday is 0; 1970-01-01 was a Thursday
Weekday(t) == (DayOf(t) + 3) % 7

\* x.replace(years=+n): dateutil's relativedelta(years=n), which keeps the
\* month and the time of day and clamps the day to the length of the month
ShiftYears(t, n) ==
    LET c == civil_from_days(DayOf(t))
        y == c[1] + n
    IN  days_from_civil(y, c[2], Min(c[3], DaysInMonth(y, c[2]))) * SecondsPerDay
          + TimeOfDay(t)

\* x.replace(days=+n)
ShiftDays(t, n) == t + n * SecondsPerDay

\* Arrow.format('YYYY-MM-DD'): the tokens' values in the order of the format
FormatYMD(t) == civil_from_days(DayOf(t))

\* Arrow.format('M/D/YYYY')
FormatDate(t) ==
    LET c == civil_from_days(DayOf(t)) IN <<c[2], c[3], c[1]>>

\* Arrow.format('YYYY - MM - MMMM'): year, month number, month name (by number)
FormatMonth(t) ==
    LET c == civil_from_days(DayOf(t)) IN <<c[1], c[2], c[2]>>

\* Arrow.format('d - dddd'): ISO weekday number (Monday is 1), weekday name
FormatDayOfWeek(t) == <<Weekday(t) + 1, Weekday(t) + 1>>

(***************************************************************************)
(* Python str operations, on sequences of characters.                      *)
(***************************************************************************)
\* the characters of the model, in the order of their code points
Alphabet ==
    <<" ", ",", "1", "2", "A", "B", "D", "L", "a", "b", "d", "l">>

Ord(c) == CHOOSE k \in 1..Len(Alphabet) : Alphabet[k] = c

\* str.lower() on one character
LowerChar(c) ==
    CASE c = "A" -> "a" [] c = "B" -> "b" [] c = "D" -> "d" [] c = "L" -> "l"
      [] OTHER -> c

\* str.lower()
Lower(s) == [k \in 1..Len(s) |-> LowerChar(s[k])]

\* s[a:b]
PySlice(s, a, b) ==
    LET n  == Len(s)
        aa == IF a < 0 THEN Max(a + n, 0) ELSE Min(a, n)
        bb == IF b < 0 THEN Max(b + n, 0) ELSE Min(b, n)
    IN  IF aa < bb THEN SubSeq(s, aa + 1, bb) ELSE <<>>

\* s.rfind(c): the 0-based index of the last c, or -1
RFind(s, c) ==
    IF \E k \in 1..Len(s) : s[k] = c
    THEN (CHOOSE k \in 1..Len(s) : s[k] = c /\ \A m \in (k + 1)..Len(s) : s[m] # c) - 1
    ELSE -1

\* s.strip()
Strip(s) ==
    LET keep == {k \in 1..Len(s) : s[k] # " "}
    IN  IF keep = {} THEN <<>>
        ELSE SubSeq(s, CHOOSE k \in keep : \A m \in keep : k <= m,
                       CHOOSE k \in keep : \A m \in keep : k >= m)

\* sub in s
Contains(s, sub) ==
    \E k \in 0..(Len(s) - Len(sub)) : SubSeq(s, k + 1, k + Len(sub)) = sub

\* s < t for two str: by code points, a proper prefix first
StrLess(s, t) ==
    \E k \in 1..(Min(Len(s), Len(t)) + 1) :
        /\ \A m \in 1..(k - 1) : s[m] = t[m]
        /\ \/ k = Len(s) + 1 /\ k <= Len(t)
           \/ k <= Len(s) /\ k <= Len(t) /\ Ord(s[k]) < Ord(t[k])

\* sorted(list(S)) for a set of str
RECURSIVE SortedStrs(_)
SortedStrs(S) ==
    IF S = {} THEN <<>>
    ELSE LET least == CHOOSE s \in S : \A t \in S \ {s} : StrLess(s, t)
         IN  <<least>> \o SortedStrs(S \ {least})

Range(s) == {s[k] : k \in 1..Len(s)}

(***************************************************************************)
(* split_into_food_name_and_qty and FoodLogEntry.                          *)
(***************************************************************************)
FOOD_METRICS ==
    <<"calories", "carbs", "fat", "protein", "sugar", "fiber", "sodium", "cholesterol">>

Metrics == Range(FOOD_METRICS)

\* the offset from the last comma at which the quantity is taken to start
QtyOffset == 2

split_into_food_name_and_qty(food_log_entry) ==
    LET last_comma_pos == RFind(food_log_entry, ",")
    IN  <<Strip(PySlice(food_log_entry, 0, last_comma_pos)),
          Strip(PySlice(food_log_entry, last_comma_pos + QtyOffset, Len(food_log_entry)))>>

get_name(entry) == split_into_food_name_and_qty(entry.food)[1]

get_qty(entry) == split_into_food_name_and_qty(entry.food)[2]

get_meal(entry) == Lower(entry.meal)

macros(entry) == [k \in (DOMAIN entry) \cap Metrics |-> entry[k]]

\* None is the empty sequence, a ratio the one-element sequence of [num, den]
protein_to_fat_ratio(entry) ==
    IF "protein" \in DOMAIN entry /\ "fat" \in DOMAIN entry
    THEN <<[num |-> entry.protein, den |-> Max(entry.fat, 1)]>>
    ELSE <<>>

\* FoodLogEntry(e) for a row of the export file
FoodLogEntry(food, meal, date, calories, fat, protein, sodium) ==
    [food |-> food, meal |-> meal, date |-> date, user |-> "user",
     calories |-> calories, carbs |-> 0, fat |-> fat, protein |-> protein,
     sugar |-> 0, fiber |-> 0, sodium |-> sodium, cholesterol |-> 0]

(***************************************************************************)
(* MyFitnessPalScraper.scrape_logs.                                        *)
(*                                                                         *)
(* A date argument is [kind, t]. The kinds are the objects a caller can    *)
(* pass:                                                                   *)
(*   "none"      None: replaced by arrow.now()                             *)
(*   "arrow"     an Arrow: replace(years=), ordering, format()             *)
(*   "datetime"  a timezone-aware datetime.datetime: ordered against an    *)
(*               Arrow, but its replace() takes no `years` (TypeError) and *)
(*               it has no format() method (AttributeError)                *)
(*   "duck"      an object with replace(years=) and ordering but without   *)
(*               format(): the case the sanity checks are written for      *)
(***************************************************************************)
Years == 2016..(2015 + NumYears)

ScrapeDates ==
    {At(y, md[1], md[2]) :
        y \in Years, md \in {<<1, 1>>, <<2, 28>>, <<7, 1>>}}
    \cup {At(y, 2, 29) : y \in {yy \in Years : IsLeap(yy)}}

\* what arrow.now() returns at line 45, and how much later line 46 may read it
Now == At(2018, 7, 1) + 43200
NowDrift == {0, 1}

DateArgs ==
    {[kind |-> "none", t |-> 0]}
    \cup [kind : {"arrow", "datetime", "duck"}, t : ScrapeDates]

HasShift(d) == d.kind \in {"arrow", "duck"}
HasFormat(d) == d.kind = "arrow"

\* the rows the Exporter may write for one window
ExportRow ==
    FoodLogEntry(<<"a", ",", " ", "1">>, <<"L">>, 0, 100, 2, 10, 5)

ExportBatches == {[k \in 1..n |-> ExportRow] : n \in 0..MaxBatch}

\* what is found in the export file after the Exporter has run: its rows, no
\* output at all (pandas raises EmptyDataError) or text that does not parse
ExportOutcomes == {"rows", "no_output", "malformed"}

\* lines 51-53 and 95-97: the end of the window that starts at d
WindowEnd_NoClip(d, end_date) ==
    [kind |-> d.kind, t |-> ShiftYears(d.t, 1)]

WindowEnd(d, end_date) ==
    LET jj == [kind |-> d.kind, t |-> ShiftYears(d.t, 1)]
    IN  IF jj.t > end_date.t THEN end_date ELSE jj

Raise(exc) ==
    /\ pc' = "raised"
    /\ error' = exc

\* lines 45-53: the defaults and the first window
scrape_logs(start_arg, end_arg) ==
    /\ pc = "idle"
    /\ \E drift \in NowDrift :
        LET start_date == IF start_arg.kind = "none"
                          THEN [kind |-> "arrow", t |-> Now] ELSE start_arg
            end_date   == IF end_arg.kind = "none"
                          THEN [kind |-> "arrow", t |-> Now + drift] ELSE end_arg
        IN  /\ args' = [start_date |-> start_date, end_date |-> end_date]
            /\ entries' = <<>>
            /\ i' = start_date
            /\ IF HasShift(start_date)
               THEN /\ j' = WindowEnd(start_date, end_date)
                    /\ pc' = "loop"
                    /\ error' = "none"
               ELSE /\ j' = start_date
                    /\ Raise("TypeError")
    /\ UNCHANGED <<calls, windows, files, fds, nfiles, self, ret>>

\* lines 55-97: one iteration of the loop
scrape_window ==
    /\ pc = "loop"
    /\ i.t < args.end_date.t
    /\ IF ~HasFormat(i)
       THEN /\ Raise("ValueError: start_date needs to have a format() method")
            /\ UNCHANGED <<i, j, entries, calls, windows, files, fds, nfiles>>
       ELSE IF ~HasFormat(j)
       THEN /\ Raise("ValueError: end_date needs to have a format() method")
            /\ UNCHANGED <<i, j, entries, calls, windows, files, fds, nfiles>>
       ELSE \E outcome \in ExportOutcomes :
            LET export_file == nfiles + 1 IN
            \* line 74: mkstemp creates the file and opens it; 76-84: the Exporter
            /\ nfiles' = nfiles + 1
            /\ calls' = Append(calls, [start_date |-> FormatYMD(i.t),
                                       end_date   |-> FormatYMD(j.t)])
            /\ windows' = Append(windows, <<i.t, j.t>>)
            /\ IF outcome = "rows"
               THEN \E reader \in ExportBatches :
                    \* lines 87-97
                    /\ files' = files
                    /\ fds' = fds
                    /\ entries' = entries \o reader
                    /\ i' = j
                    /\ IF HasShift(j)
                       THEN /\ j' = WindowEnd(j, args.end_date)
                            /\ UNCHANGED <<pc, error>>
                       ELSE /\ j' = j
                            /\ Raise("TypeError")
               ELSE \* line 87 raises: lines 89-90 are not reached
                    /\ files' = files \cup {export_file}
                    /\ fds' = fds \cup {export_file}
                    /\ Raise(IF outcome = "no_output"
                             THEN "EmptyDataError" ELSE "ParserError")
                    /\ UNCHANGED <<i, j, entries>>
    /\ UNCHANGED <<args, self, ret>>

\* lines 55, 99-102: the loop ends and the FoodLog is returned
scrape_return ==
    /\ pc = "loop"
    /\ ~(i.t < args.end_date.t)
    /\ pc' = "done"
    /\ ret' = [entries |-> entries,
               start_date |-> args.start_date, end_date |-> args.end_date]
    /\ UNCHANGED <<args, i, j, entries, calls, windows, files, fds, nfiles, error, self>>

NoDate == [kind |-> "none", t |-> 0]

Init ==
    /\ pc = "idle"
    /\ args = [start_date |-> NoDate, end_date |-> NoDate]
    /\ i = NoDate
    /\ j = NoDate
    /\ entries = <<>>
    /\ calls = <<>>
    /\ windows = <<>>
    /\ files = {}
    /\ fds = {}
    /\ nfiles = 0
    /\ error = "none"
    /\ self = <<>>
    /\ ret = <<>>

Next ==
    \/ \E start_arg \in DateArgs, end_arg \in DateArgs : scrape_logs(start_arg, end_arg)
    \/ scrape_window
    \/ scrape_return

Spec == Init /\ [][Next]_vars

(***************************************************************************)
(* Properties of scrape_logs.                                              *)
(***************************************************************************)
WellFormedDates ==
    args.start_date.kind = "arrow" /\ args.end_date.kind = "arrow"

SpanNonEmpty == args.start_date.t < args.end_date.t

\* the span from s to e in calendar years, rounded up: the least n for which
\* s shifted by n years reaches e
CeilYears(s, e) ==
    CHOOSE n \in 0..(NumYears + 1) :
        /\ ShiftYears(s, n) >= e
        /\ \A m \in 0..(n - 1) : ShiftYears(s, m) < e

IsFeb29(t) ==
    LET c == civil_from_days(DayOf(t)) IN c[2] = 2 /\ c[3] = 29

\* the Exporter is invoked for windows in order: the first starts at start_date,
\* each ends at min(window start + 1 year, end_date), each next one starts where
\* the previous one ended, and on return the last one ends at end_date
WindowsInOrder ==
    LET n == Len(windows) IN
    /\ Len(calls) = n
    /\ \A k \in 1..n :
        /\ calls[k] = [start_date |-> FormatYMD(windows[k][1]),
                       end_date   |-> FormatYMD(windows[k][2])]
        /\ windows[k][1] < args.end_date.t
        /\ windows[k][2] = Min(ShiftYears(windows[k][1], 1), args.end_date.t)
    /\ n > 0 => windows[1][1] = args.start_date.t
    /\ \A k \in 1..(n - 1) : windows[k + 1][1] = windows[k][2]
    /\ (pc = "done" /\ SpanNonEmpty) =>
          n > 0 /\ windows[n][2] = args.end_date.t

\* C1 (as stated): for every request with start_date < end_date the windows are
\* issued in order as above, and the number of Exporter calls is the span in
\* years rounded up.
C1_WindowsAndCeilCount ==
    (pc # "idle" /\ WellFormedDates /\ SpanNonEmpty) =>
        /\ WindowsInOrder
        /\ pc = "done" =>
              Len(calls) = CeilYears(args.start_date.t, args.end_date.t)

\* C1 (amended): the windows are issued in order as above; the number of
\* Exporter calls is the span in years rounded up when start_date is not a
\* 29 February, and that number or one more when it is (the one-year steps then
\* land on 28 February, short of an end_date on a later 29 February).
C1_WindowsAndStepCount ==
    (pc # "idle" /\ WellFormedDates /\ SpanNonEmpty) =>
        /\ WindowsInOrder
        /\ pc = "done" =>
              LET n == Len(calls)
                  c == CeilYears(args.start_date.t, args.end_date.t)
              IN  /\ c <= n /\ n <= c + 1
                  /\ ~IsFeb29(args.start_date.t) => n = c

\* a request of two and a half years returned after three calls, the last
\* window clipped to end_date
C1_Witness ==
    /\ pc = "done" /\ WellFormedDates
    /\ args.end_date.t = ShiftDays(ShiftYears(args.start_date.t, 2), 182)
    /\ Len(calls) = 3
    /\ windows[3][2] = args.end_date.t
    /\ windows[3][2] < ShiftYears(windows[3][1], 1)

\* C4: when scrape_logs has returned or raised, no temporary file it created
\* remains and no descriptor it opened is still open.
C4_NoTempFileLeft ==
    pc \in {"done", "raised"} => files = {} /\ fds = {}

\* C5: a start_date or end_date without format() makes scrape_logs fail with a
\* ValueError naming that argument, before the Exporter is invoked and before
\* any temporary file is created.
C5_MalformedDateFailsFast ==
    LET bad_start == ~HasFormat(args.start_date)
        bad_end   == ~HasFormat(args.end_date)
    IN  (pc # "idle" /\ (bad_start \/ bad_end)) =>
            /\ calls = <<>>
            /\ nfiles = 0
            /\ pc # "done"
            /\ pc = "raised" =>
                  \/ bad_start /\ error = "ValueError: start_date needs to have a format() method"
                  \/ bad_end /\ error = "ValueError: end_date needs to have a format() method"

(***************************************************************************)
(* The FoodLogEntry accessors, applied to one entry.                       *)
(***************************************************************************)
\* the scraper is not running
ScraperIdle ==
    /\ i = NoDate
    /\ j = NoDate
    /\ entries = <<>>
    /\ calls = <<>>
    /\ windows = <<>>
    /\ files = {}
    /\ fds = {}
    /\ nfiles = 0
    /\ error = "none"

RECURSIVE StrsUpTo(_, _)
StrsUpTo(chars, n) ==
    IF n = 0 THEN {<<>>}
    ELSE LET shorter == StrsUpTo(chars, n - 1)
         IN  shorter \cup {Append(s, c) : s \in shorter, c \in chars}

FoodDescriptions == StrsUpTo({"a", ",", " "}, MaxLen)

\* a row without the 'fat' column
WithoutFat(entry) == [k \in (DOMAIN entry) \ {"fat"} |-> entry[k]]

InitEntry ==
    /\ pc = "idle"
    /\ args = [op |-> "none"]
    /\ ScraperIdle
    /\ \E food \in FoodDescriptions, fat \in {0, 4} :
          self \in {FoodLogEntry(food, <<"L">>, 0, 100, fat, 10, 5),
                    WithoutFat(FoodLogEntry(food, <<"L">>, 0, 100, fat, 10, 5))}
    /\ ret = <<>>

Return(op, value) ==
    /\ pc = "idle"
    /\ pc' = "done"
    /\ args' = [op |-> op]
    /\ ret' = value
    /\ UNCHANGED <<i, j, entries, calls, windows, files, fds, nfiles, error, self>>

call_get_name == Return("get_name", get_name(self))
call_get_qty == Return("get_qty", get_qty(self))
call_get_meal == Return("get_meal", get_meal(self))
call_macros == Return("macros", macros(self))
call_protein_to_fat_ratio == Return("protein_to_fat_ratio", protein_to_fat_ratio(self))

NextEntry ==
    \/ call_get_name
    \/ call_get_qty
    \/ call_get_meal
    \/ call_macros
    \/ call_protein_to_fat_ratio

SpecEntry == InitEntry /\ [][NextEntry]_vars

\* the text before / after the last comma of a description that has one
BeforeLastComma(s) ==
    LET pos == CHOOSE k \in 1..Len(s) : s[k] = "," /\ \A m \in (k + 1)..Len(s) : s[m] # ","
    IN  SubSeq(s, 1, pos - 1)

AfterLastComma(s) ==
    LET pos == CHOOSE k \in 1..Len(s) : s[k] = "," /\ \A m \in (k + 1)..Len(s) : s[m] # ","
    IN  SubSeq(s, pos + 1, Len(s))

\* C8: for every food description with at least one comma, get_name() is the
\* text before the last comma and get_qty() the text after it, each trimmed: no
\* character of the text after the last comma is lost.
C8_SplitAtLastComma ==
    (pc = "done" /\ "," \in Range(self.food)) =>
        /\ args.op = "get_name" => ret = Strip(BeforeLastComma(self.food))
        /\ args.op = "get_qty" => ret = Strip(AfterLastComma(self.food))

(***************************************************************************)
(* FoodLog: the views.                                                     *)
(*                                                                         *)
(* A FoodLog is [entries, start_date, end_date], the dates being instants. *)
(* An output row is a record; its cells that the code may overwrite with   *)
(* '' are sequences: <<n>> for the number n, <<>> for ''. The string keys  *)
(* '<meal> <metric>', 'total <metric>' and '<meal> frequency' cannot       *)
(* collide with each other or with the fixed keys (no metric name contains *)
(* a space), so they are modelled as the nested fields meals[meal][metric],*)
(* total[metric] and meal_frequency[meal].                                 *)
(***************************************************************************)
MsPerSecond == 1000

\* a Counter: a missing key counts 0
CGet(c, k) == IF k \in DOMAIN c THEN c[k] ELSE 0

EmptyDict == [x \in {} |-> 0]

\* line 106: default_macros_daily_entry()
default_macros_daily_entry == [totals |-> EmptyDict, meals |-> EmptyDict]

\* lines 135-146
get_unique_meal_names(log) ==
    SortedStrs({Lower(log.entries[k].meal) : k \in 1..Len(log.entries)})

\* lines 154-160: whether the entry passes the token filter; tokens is
\* [given |-> FALSE] for None
PassesTokens(entry, tokens) ==
    ~tokens.given \/
    \E n \in 1..Len(tokens.list) :
        Contains(Lower(get_name(entry)), Lower(tokens.list[n]))

\* line 164: the key an entry is filed under, arrow.get(entry['date'] / 1000)
DayKey(entry) == entry.date \div MsPerSecond

\* lines 165-169: one entry added to `days`
AddToDays(days, entry) ==
    LET day  == DayKey(entry)
        meal == Lower(entry.meal)
        old  == IF day \in DOMAIN days THEN days[day] ELSE default_macros_daily_entry
        keys == (DOMAIN entry) \cap Metrics
        oldm == IF meal \in DOMAIN old.meals THEN old.meals[meal] ELSE EmptyDict
        new  == [totals |-> [k \in (DOMAIN old.totals) \cup keys |->
                                CGet(old.totals, k) + (IF k \in keys THEN entry[k] ELSE 0)],
                 meals  |-> [m \in (DOMAIN old.meals) \cup {meal} |->
                                IF m = meal
                                THEN [k \in (DOMAIN oldm) \cup keys |->
                                        CGet(oldm, k) + (IF k \in keys THEN entry[k] ELSE 0)]
                                ELSE old.meals[m]]]
    IN  [d \in (DOMAIN days) \cup {day} |-> IF d = day THEN new ELSE days[d]]

\* lines 151-169: `days` after the first n entries
RECURSIVE DaysAfter(_, _, _)
DaysAfter(log, tokens, n) ==
    IF n = 0 THEN EmptyDict
    ELSE LET days  == DaysAfter(log, tokens, n - 1)
             entry == log.entries[n]
         IN  IF PassesTokens(entry, tokens) THEN AddToDays(days, entry) ELSE days

\* Arrow.span_range('day', start, end): the days from the floor of start on,
\* one day apart, while they are <= end
SpanRange_Exclusive(start, end) ==
    LET first == FloorDay(start)
        n     == IF first < end THEN (end - 1 - first) \div SecondsPerDay + 1 ELSE 0
    IN  [k \in 1..n |-> ShiftDays(first, k - 1)]

SpanRange(start, end) ==
    LET first == FloorDay(start)
        n     == IF first <= end THEN (end - first) \div SecondsPerDay + 1 ELSE 0
    IN  [k \in 1..n |-> ShiftDays(first, k - 1)]

\* lines 176-186: the row of one day
DayEntry(days, day, meal_names) ==
    LET d == IF day \in DOMAIN days THEN days[day] ELSE default_macros_daily_entry
    IN  [date          |-> FormatDate(day),
         start_of_week |-> FormatDate(ShiftDays(day, 0 - Weekday(day))),
         month         |-> FormatMonth(day),
         n_meals       |-> <<Cardinality(DOMAIN d.meals)>>,
         totals        |-> [m \in Metrics |-> <<CGet(d.totals, m)>>],
         meals         |-> [mn \in Range(meal_names) |->
                              [m \in Metrics |->
                                 <<IF mn \in DOMAIN d.meals
                                   THEN CGet(d.meals[mn], m) ELSE 0>>]]]

\* the include_zero argument: "omitted" takes the default of line 148, the
\* str 'False'
IncludeZeroValue(arg) ==
    IF arg = "omitted" THEN [type |-> "str", str |-> "False", bool |-> FALSE]
    ELSE [type |-> "bool", str |-> "", bool |-> (arg = "True")]

\* Python truth of that value: a str is true unless it is empty
Truthy(v) == IF v.type = "str" THEN v.str # "" ELSE v.bool

\* lines 190-194
Blanked(row) ==
    [date          |-> row.date,
     start_of_week |-> row.start_of_week,
     month         |-> <<>>,
     n_meals       |-> <<>>,
     totals        |-> [m \in DOMAIN row.totals |-> <<>>],
     meals         |-> [mn \in DOMAIN row.meals |->
                          [m \in DOMAIN row.meals[mn] |-> <<>>]]]

BlankIfZero(row, include_zero) ==
    IF row.totals["calories"] = <<0>> /\ ~Truthy(include_zero)
    THEN Blanked(row) ELSE row

\* lines 148-196
daily_macros(log, tokens, include_zero_arg) ==
    LET days       == DaysAfter(log, tokens, Len(log.entries))
        meal_names == get_unique_meal_names(log)
        span       == SpanRange(log.start_date, log.end_date)
        include_zero == IncludeZeroValue(include_zero_arg)
    IN  [k \in 1..Len(span) |->
            BlankIfZero(DayEntry(days, span[k], meal_names), include_zero)]

\* lines 245-261
raw_foods_list(log) ==
    [k \in 1..Len(log.entries) |->
        LET entry == log.entries[k]
            day   == entry.date \div MsPerSecond
            kept  == (DOMAIN entry) \ {"food", "date", "user"}
        IN  [name          |-> entry.food,
             date          |-> FormatDate(day),
             start_of_week |-> FormatDate(ShiftDays(day, 0 - Weekday(day))),
             month         |-> FormatMonth(day),
             day_of_week   |-> FormatDayOfWeek(day),
             fields        |-> [f \in kept |-> entry[f]]]]

\* lines 207-209: the grand total of every metric
Totals(log) ==
    [m \in Metrics |-> SumSeq([k \in 1..Len(log.entries) |-> log.entries[k][m]])]

\* lines 214-232: the row of a food seen for the first time
NewFood(entry, meal_names, totals) ==
    [name           |-> get_name(entry),
     frequency      |-> 1,
     qty            |-> get_qty(entry),
     macros         |-> macros(entry),
     meal_frequency |-> [m \in Range(meal_names) \cup {get_meal(entry)} |->
                            IF m = get_meal(entry) THEN 1 ELSE 0],
     total          |-> [m \in Metrics |-> entry[m]],
     total_percent  |-> [m \in Metrics |->
                            [num |-> entry[m] * 100, den |-> Max(1, totals[m])]],
     total_percent_per_serving |->
                        [m \in Metrics |->
                            [num |-> entry[m] * 100, den |-> Max(1, totals[m])]],
     protein_to_fat_ratio |-> protein_to_fat_ratio(entry)]

SeenAgain_TotalOverwritten(existing_entry, entry, totals) ==
    [existing_entry EXCEPT
        !.frequency = @ + 1,
        !.meal_frequency[get_meal(entry)] = @ + 1,
        !.total = [m \in Metrics |-> entry[m]]]

SeenAgain_QtyUpdated(existing_entry, entry, totals) ==
    [existing_entry EXCEPT
        !.frequency = @ + 1,
        !.qty = get_qty(entry),
        !.meal_frequency[get_meal(entry)] = @ + 1,
        !.total = [m \in Metrics |-> existing_entry.total[m] + entry[m]]]

\* lines 235-241: the row of a food seen again
SeenAgain(existing_entry, entry, totals) ==
    LET frequency == existing_entry.frequency + 1
        total     == [m \in Metrics |-> existing_entry.total[m] + entry[m]]
    IN  [existing_entry EXCEPT
            !.frequency = frequency,
            !.meal_frequency[get_meal(entry)] = @ + 1,
            !.total = total,
            !.total_percent =
                [m \in Metrics |-> [num |-> total[m] * 100, den |-> Max(1, totals[m])]],
            !.total_percent_per_serving =
                [m \in Metrics |->
                    [num |-> total[m] * 100, den |-> Max(1, totals[m]) * frequency]]]

\* lines 211-241: unique_foods after the first n entries, a dict from name to row
RECURSIVE UniqueFoodsAfter(_, _)
UniqueFoodsAfter(log, n) ==
    IF n = 0 THEN EmptyDict
    ELSE LET unique_foods == UniqueFoodsAfter(log, n - 1)
             entry        == log.entries[n]
             name         == get_name(entry)
         IN  IF name \notin DOMAIN unique_foods
             THEN [x \in (DOMAIN unique_foods) \cup {name} |->
                     IF x = name
                     THEN NewFood(entry, get_unique_meal_names(log), Totals(log))
                     ELSE unique_foods[x]]
             ELSE [unique_foods EXCEPT ![name] = SeenAgain(@, entry, Totals(log))]

\* dict.values() of a Python 2 dict: the values in some order, which is fixed by
\* the keys' hashes and not by the order of insertion
DictValueOrders(d) ==
    LET n == Cardinality(DOMAIN d)
    IN  {[k \in 1..n |-> d[keys[k]]] :
            keys \in {ks \in [1..n -> DOMAIN d] : Range(ks) = DOMAIN d}}

RemoveAt(s, k) == SubSeq(s, 1, k - 1) \o SubSeq(s, k + 1, Len(s))

RECURSIVE SortedByFrequency_Ascending(_)
SortedByFrequency_Ascending(values) ==
    IF values = <<>> THEN <<>>
    ELSE LET least == CHOOSE k \in 1..Len(values) :
                        /\ \A m \in 1..Len(values) :
                              values[k].frequency <= values[m].frequency
                        /\ \A m \in 1..(k - 1) :
                              values[m].frequency # values[k].frequency
         IN  <<values[least]>> \o SortedByFrequency_Ascending(RemoveAt(values, least))

\* line 243: sorted(values, key=frequency, reverse=True), a stable sort: rows of
\* equal frequency keep the order they have in `values`
RECURSIVE SortedByFrequency(_)
SortedByFrequency(values) ==
    IF values = <<>> THEN <<>>
    ELSE LET first == CHOOSE k \in 1..Len(values) :
                        /\ \A m \in 1..Len(values) :
                              values[k].frequency >= values[m].frequency
                        /\ \A m \in 1..(k - 1) :
                              values[m].frequency # values[k].frequency
         IN  <<values[first]>> \o SortedByFrequency(RemoveAt(values, first))

\* lines 198-243: the results unique_foods_sorted_by_frequency may return
unique_foods_sorted_by_frequency(log) ==
    {SortedByFrequency(values) :
        values \in DictValueOrders(UniqueFoodsAfter(log, Len(log.entries)))}

(***************************************************************************)
(* The FoodLogs the views are applied to.                                  *)
(***************************************************************************)
\* the n-th day the FoodLog dates are drawn from (a Saturday, a Sunday, a
\* Monday, ...; close to the epoch, so that milliseconds stay below 2^31), and
\* noon of a day
LogDay(n) == ShiftDays(At(1970, 1, 3), n)
Noon(t) == t + 43200

Ms(t) == t * MsPerSecond

\* the rows of the export the entries are drawn from: a food eaten twice in
\* different quantities and at different meals, a row logged at noon, a row
\* without calories, meal names that differ in case only
LogCatalog ==
    {FoodLogEntry(<<"a", ",", " ", "1">>, <<"L">>, Ms(LogDay(0)), 100, 2, 10, 5),
     FoodLogEntry(<<"a", ",", " ", "2">>, <<"D">>, Ms(LogDay(1)), 50, 0, 4, 0),
     FoodLogEntry(<<"B", ",", "a", ",", " ", "1">>, <<"l">>, Ms(Noon(LogDay(1))), 70, 1, 3, 2),
     FoodLogEntry(<<"b", ",", " ", "1">>, <<"D">>, Ms(LogDay(1)), 0, 0, 0, 5),
     FoodLogEntry(<<"B", ",", "a", ",", " ", "2">>, <<"L">>, Ms(LogDay(2)), 30, 3, 3, 1)}

RECURSIVE SeqsUpTo(_, _)
SeqsUpTo(S, n) ==
    IF n = 0 THEN {<<>>}
    ELSE LET shorter == SeqsUpTo(S, n - 1)
         IN  shorter \cup {Append(s, x) : s \in shorter, x \in S}

LogDates ==
    {LogDay(n) : n \in 0..(MaxDays - 1)} \cup {Noon(LogDay(n)) : n \in 0..(MaxDays - 1)}

TokenArgs ==
    {[given |-> FALSE, list |-> <<>>],
     [given |-> TRUE, list |-> <<>>],
     [given |-> TRUE, list |-> <<<<"A">>>>],
     [given |-> TRUE, list |-> <<<<"b", ",">>, <<"2">>>>]}

IncludeZeroArgs == {"omitted", "False", "True"}

InitDaily ==
    /\ pc = "idle"
    /\ args = [op |-> "none"]
    /\ ScraperIdle
    /\ \E es \in SeqsUpTo(LogCatalog, MaxEntries), sd \in LogDates, ed \in LogDates :
          self = [entries |-> es, start_date |-> sd, end_date |-> ed]
    /\ ret = <<>>

call_daily_macros(tokens, include_zero) ==
    /\ pc = "idle"
    /\ pc' = "done"
    /\ args' = [op |-> "daily_macros", tokens |-> tokens, include_zero |-> include_zero]
    /\ ret' = daily_macros(self, tokens, include_zero)
    /\ UNCHANGED <<i, j, entries, calls, windows, files, fds, nfiles, error, self>>

call_raw_foods_list == Return("raw_foods_list", raw_foods_list(self))

NextDaily ==
    \/ \E tokens \in TokenArgs, include_zero \in IncludeZeroArgs :
          call_daily_macros(tokens, include_zero)
    \/ call_raw_foods_list

SpecDaily == InitDaily /\ [][NextDaily]_vars

InitFoods ==
    /\ pc = "idle"
    /\ args = [op |-> "none"]
    /\ ScraperIdle
    /\ \E es \in SeqsUpTo(LogCatalog, MaxEntries + 1) :
          self = [entries |-> es, start_date |-> LogDay(0), end_date |-> LogDay(MaxDays - 1)]
    /\ ret = <<>>

call_unique_foods_sorted_by_frequency ==
    /\ pc = "idle"
    /\ pc' = "done"
    /\ args' = [op |-> "unique_foods_sorted_by_frequency"]
    /\ ret' \in unique_foods_sorted_by_frequency(self)
    /\ UNCHANGED <<i, j, entries, calls, windows, files, fds, nfiles, error, self>>

call_get_unique_meal_names == Return("get_unique_meal_names", get_unique_meal_names(self))

NextFoods ==
    \/ call_unique_foods_sorted_by_frequency
    \/ call_get_unique_meal_names

SpecFoods == InitFoods /\ [][NextFoods]_vars

(***************************************************************************)
(* Properties of daily_macros.                                             *)
(***************************************************************************)
DailyDone == pc = "done" /\ args.op = "daily_macros"

\* the calendar day of the k-th row of the span
RowDay(k) == DayOf(self.start_date) + k - 1

RowCells(row) ==
    {row.month, row.n_meals}
    \cup {row.totals[m] : m \in DOMAIN row.totals}
    \cup UNION {{row.meals[mn][m] : m \in DOMAIN row.meals[mn]} : mn \in DOMAIN row.meals}

\* C3: with include_zero False or omitted, every row whose total calories is zero
\* has every field except 'date' and 'start of week' blank, and every other row
\* keeps its numeric fields.
C3_ZeroCalorieRowsBlank ==
    (DailyDone /\ args.include_zero \in {"False", "omitted"}) =>
        \A k \in 1..Len(ret) :
            IF ret[k].totals["calories"] \in {<<0>>, <<>>}
            THEN \A cell \in RowCells(ret[k]) : cell = <<>>
            ELSE \A cell \in RowCells(ret[k]) : cell # <<>>

\* the sum of a metric over the entries that contribute to the call, fall on
\* the given calendar day and belong to one of the given meals
SumOnDay(metric, day, meal_set) ==
    SumSeq([n \in 1..Len(self.entries) |->
              LET entry == self.entries[n]
              IN  IF /\ PassesTokens(entry, args.tokens)
                     /\ DayOf(entry.date \div MsPerSecond) = day
                     /\ Lower(entry.meal) \in meal_set
                  THEN entry[metric] ELSE 0])

AllMeals == {Lower(self.entries[n].meal) : n \in 1..Len(self.entries)}

\* C9: every contributing entry is bucketed by the calendar day of its
\* timestamp, whatever its time of day: a row's total of a metric is the sum
\* over the contributing entries of that day, its '<meal> <metric>' the same sum
\* over the entries of that meal, and so the total is the sum of the sub-totals.
C9_BucketedByCalendarDay ==
    (DailyDone /\ args.include_zero = "True") =>
        \A k \in 1..Len(ret) : \A m \in Metrics :
            /\ ret[k].totals[m] = <<SumOnDay(m, RowDay(k), AllMeals)>>
            /\ \A mn \in DOMAIN ret[k].meals :
                  ret[k].meals[mn][m] = <<SumOnDay(m, RowDay(k), {mn})>>
            /\ ret[k].totals[m] =
                  <<SumSeq([x \in 1..Len(get_unique_meal_names(self)) |->
                              ret[k].meals[get_unique_meal_names(self)[x]][m][1]])>>

(***************************************************************************)
(* Properties of unique_foods_sorted_by_frequency.                         *)
(***************************************************************************)
FoodsDone == pc = "done" /\ args.op = "unique_foods_sorted_by_frequency"

Occurrences(name) ==
    {n \in 1..Len(self.entries) : get_name(self.entries[n]) = name}

FirstOccurrence(name) ==
    CHOOSE n \in Occurrences(name) : \A m \in Occurrences(name) : n <= m

LastOccurrence(name) ==
    CHOOSE n \in Occurrences(name) : \A m \in Occurrences(name) : n >= m

\* C6: for every metric, the rows' 'total <metric>' add up to the grand total of
\* the metric over all entries, and the rows' 'frequency' add up to the number
\* of entries.
C6_TotalsAddUp ==
    FoodsDone =>
        /\ \A m \in Metrics :
              SumSeq([k \in 1..Len(ret) |-> ret[k].total[m]])
                = SumSeq([n \in 1..Len(self.entries) |-> self.entries[n][m]])
        /\ SumSeq([k \in 1..Len(ret) |-> ret[k].frequency]) = Len(self.entries)

\* several foods, one of them eaten more than once with calories to add up
C6_Witness ==
    /\ FoodsDone
    /\ Len(self.entries) >= 3
    /\ Len(ret) >= 2
    /\ \E k \in 1..Len(ret) :
          /\ ret[k].frequency >= 2
          /\ ret[k].total["calories"] > ret[k].macros["calories"]

OneRowPerFoodNonIncreasing ==
    /\ Len(ret) = Cardinality({get_name(self.entries[n]) : n \in 1..Len(self.entries)})
    /\ {ret[k].name : k \in 1..Len(ret)}
          = {get_name(self.entries[n]) : n \in 1..Len(self.entries)}
    /\ \A k \in 1..(Len(ret) - 1) : ret[k].frequency >= ret[k + 1].frequency

\* C7 (as stated): one row per distinct food name, 'frequency' non-increasing
\* along the rows, and foods of equal frequency in the order of their first
\* appearance in the log.
C7_SortedTiesByFirstAppearance ==
    FoodsDone =>
        /\ OneRowPerFoodNonIncreasing
        /\ \A p \in 1..Len(ret) : \A q \in (p + 1)..Len(ret) :
              ret[p].frequency = ret[q].frequency =>
                  FirstOccurrence(ret[p].name) < FirstOccurrence(ret[q].name)

\* C7 (amended): one row per distinct food name, 'frequency' non-increasing
\* along the rows; the order of foods of equal frequency is not determined.
C7_SortedByFrequency ==
    FoodsDone => OneRowPerFoodNonIncreasing

\* the food eaten most often first appears in the log after another food
C7_Witness ==
    /\ FoodsDone
    /\ Len(ret) >= 2
    /\ ret[1].frequency > ret[2].frequency
    /\ FirstOccurrence(ret[1].name) > FirstOccurrence(ret[2].name)

\* C10 (as stated): a row's 'qty' is the quantity of the last occurrence of the
\* food in the log, its plain metric fields those of the first occurrence.
C10_QtyOfLastOccurrence ==
    FoodsDone =>
        \A k \in 1..Len(ret) :
            /\ ret[k].qty = get_qty(self.entries[LastOccurrence(ret[k].name)])
            /\ ret[k].macros = macros(self.entries[FirstOccurrence(ret[k].name)])

\* C10 (amended): a row's 'qty' is the quantity of the first occurrence of the
\* food in the log, as its plain metric fields are those of the first
\* occurrence.
C10_QtyOfFirstOccurrence ==
    FoodsDone =>
        \A k \in 1..Len(ret) :
            /\ ret[k].qty = get_qty(self.entries[FirstOccurrence(ret[k].name)])
            /\ ret[k].macros = macros(self.entries[FirstOccurrence(ret[k].name)])

\* a food logged several times, the last time in another quantity than the first
C10_Witness ==
    /\ FoodsDone
    /\ \E k \in 1..Len(ret) :
          /\ ret[k].frequency >= 2
          /\ get_qty(self.entries[LastOccurrence(ret[k].name)])
                # get_qty(self.entries[FirstOccurrence(ret[k].name)])

====
